---- MODULE Spec2Model ----
(***************************************************************************)
(* A model of interpreter/interpreter.py: the Interpreter session object,  *)
(* chat() and the recursive respond() that reassembles a streamed reply,   *)
(* asks for confirmation, runs code and continues the conversation.        *)
(*                                                                         *)
(* One action is one stretch of code between two blocking waits of the     *)
(* single thread: the provider request, the wait for the next fragment,    *)
(* the confirmation prompt, the backend run, and chat's input prompt.      *)
(* A KeyboardInterrupt can only arrive at such a wait.                     *)
(***************************************************************************)
EXTENDS Integers, Sequences, FiniteSets, TLC

(***************************************************************************)
(* Bounds of the model.                                                    *)
(***************************************************************************)
MaxUserTurns == 2   \* user Turns entered over one behaviour
MaxRequests == 3    \* provider requests issued over one behaviour
MaxFragments == 2   \* fragments delivered after the first one of a stream
MaxResets == 1      \* calls of reset()
MaxText == 2        \* length of the text one field of a stream carries

(***************************************************************************)
(* Turns are Python dicts: functions whose domain is the set of keys       *)
(* present.  Text is a string; the raw argument text is a sequence of      *)
(* tokens so that the partial parser can look inside it.                   *)
(***************************************************************************)
Has(m, k) == k \in DOMAIN m

EmptyTurn == [k \in {} |-> ""]

Last(s) == s[Len(s)]

UserTurn(text) == [role |-> "user", content |-> text]

FunctionTurn(c) == [role |-> "function", name |-> "run_code", content |-> c]

DeclinedContent == "User decided not to run this code."

\* The corrective message of lines 389-393 (its backquotes left out).
CorrectiveContent == "Your function call could not be parsed. Please use ONLY the run_code function, which takes two parameters: code and language. Your response should be formatted as a JSON."

NoOutput == "No output"

(***************************************************************************)
(* utils.merge_deltas: a field of the fragment is appended to the field of *)
(* the cumulative Turn, or creates it; the nested invocation is merged the *)
(* same way, field by field.                                               *)
(***************************************************************************)
MergeFields(original, delta) ==
  [k \in DOMAIN original \cup DOMAIN delta |->
     IF k \notin DOMAIN delta THEN original[k]
     ELSE IF k \notin DOMAIN original THEN delta[k]
     ELSE original[k] \o delta[k]]

\* A mutant of merge_deltas: a field of the fragment replaces the field.
merge_deltas_replacing(original, delta) ==
  [k \in DOMAIN original \cup DOMAIN delta |->
     IF k \in DOMAIN delta THEN delta[k] ELSE original[k]]

merge_deltas(original, delta) ==
  [k \in DOMAIN original \cup DOMAIN delta |->
     IF k \notin DOMAIN delta THEN original[k]
     ELSE IF k \notin DOMAIN original THEN delta[k]
     ELSE IF k = "function_call" THEN MergeFields(original[k], delta[k])
     ELSE original[k] \o delta[k]]

(***************************************************************************)
(* utils.parse_partial_json over the token text: "p" and "s" are complete  *)
(* "language" members (python, shell), "c" is a complete "code" member,    *)
(* "x" is text no repair makes valid.  The result is the object recovered, *)
(* or NotParsed (None).                                                    *)
(***************************************************************************)
ArgTokens == {"p", "s", "c", "x"}

Languages == {"python", "shell"}

NotParsed == [k \in {} |-> ""]

LanguageOf(tok) == IF tok = "p" THEN "python" ELSE "shell"

LastLanguageIndex(arguments) ==
  CHOOSE i \in 1..Len(arguments) :
    /\ arguments[i] \in {"p", "s"}
    /\ \A j \in (i+1)..Len(arguments) : arguments[j] \notin {"p", "s"}

parse_partial_json(arguments) ==
  IF arguments = <<>> \/ \E i \in 1..Len(arguments) : arguments[i] = "x"
  THEN NotParsed
  ELSE LET hasL == \E i \in 1..Len(arguments) : arguments[i] \in {"p", "s"}
           hasC == \E i \in 1..Len(arguments) : arguments[i] = "c"
       IN [k \in (IF hasL THEN {"language"} ELSE {}) \cup (IF hasC THEN {"code"} ELSE {}) |->
             IF k = "language"
             THEN LanguageOf(arguments[LastLanguageIndex(arguments)])
             ELSE "c"]

\* A mutant of Truthy: every parse result is taken as a success.
TruthyAlways(obj) == TRUE

\* Python truthiness of a parse result: None and the empty object are false.
Truthy(obj) == DOMAIN obj # {}

(***************************************************************************)
(* str.strip() and str.lower() on the answer to the confirmation prompt,   *)
(* an answer being a sequence of characters.                               *)
(***************************************************************************)
LowerChar(c) == IF c = "Y" THEN "y" ELSE IF c = "N" THEN "n" ELSE c

Lower(s) == [i \in 1..Len(s) |-> LowerChar(s[i])]

RECURSIVE StripLeft(_)
StripLeft(s) == IF s # <<>> /\ Head(s) = " " THEN StripLeft(Tail(s)) ELSE s

RECURSIVE StripRight(_)
StripRight(s) ==
  IF s # <<>> /\ s[Len(s)] = " " THEN StripRight(SubSeq(s, 1, Len(s) - 1)) ELSE s

Strip(s) == StripRight(StripLeft(s))

\* A mutant of Approves: an empty answer counts as a yes.
ApprovesByDefault(response) == Lower(Strip(response)) \in {<<"y">>, <<>>}

\* Line 356: response.strip().lower() == "y"
Approves(response) == Lower(Strip(response)) = <<"y">>

(***************************************************************************)
(* The inputs.                                                             *)
(***************************************************************************)
Answers == {<<"y">>, <<" ", "Y", " ">>, <<"n">>, <<"y", "e", "s">>, <<>>}

InputLines == {"hi", "%debug"}

Messages == {"hi"}

Outputs == {"", "out"}

FinishReasons == {"stop", "length", "function_call"}

NoFinish == "None"

\* The first fragment of a stream carries the role, and may open the invocation.
FirstDeltas ==
  { [role |-> "assistant"],
    [role |-> "assistant",
     function_call |-> [name |-> "run_code", arguments |-> <<>>]] }

\* The fragments after it carry a piece of text or a piece of the invocation.
LaterDeltas ==
  { [content |-> "a"] }
  \cup { [function_call |-> [arguments |-> <<t>>]] : t \in ArgTokens }

VARIABLES
  messages,           \* self.messages
  active_block,       \* self.active_block: the block referenced, or NoBlock (None)
  leaked,             \* open blocks that nothing references any more
  code_interpreters,  \* self.code_interpreters: language -> instance
  auto_run,           \* self.auto_run
  local,              \* self.local
  debug_mode,         \* self.debug_mode
  chat,               \* where chat() is: outside, input, interactive, message, crashed
  stack,              \* the activations of respond(), the innermost last
  error,              \* the exception that ended the session, "" when none
  requests,           \* provider requests issued (openai.ChatCompletion.create)
  prompts,            \* confirmation prompts issued
  run_calls,          \* backend run calls made
  creations,          \* CodeInterpreters created since the last reset(), per language
  session,            \* number of reset() calls so far
  user_turns,         \* user Turns entered so far
  fragments,          \* later fragments delivered so far
  tally,              \* invocations dispatched, returned, declined, reported
                      \* unparsable since the last reset()
  event,              \* what the last step that touched the session did
  target,             \* the text a stream carries in all, field by field
  pending             \* the part of it that is not delivered yet

vars == << messages, active_block, leaked, code_interpreters, auto_run, local,
           debug_mode, chat, stack, error, requests, prompts, run_calls,
           creations, session, user_turns, fragments, tally, event, target,
           pending >>

(***************************************************************************)
(* Activations of respond().  pc is the blocking wait the activation is    *)
(* at: "request" (get_info_for_system_message and the provider request),   *)
(* "stream" (the next fragment), "confirm" (the prompt), "run" (the        *)
(* backend), or the recursive call it made: "retry_call" (line 395),       *)
(* "run_call" (line 421).  turn is the index of the Turn it assembles, asked *)
(* and runs count its prompts and run() calls, interp is the backend that  *)
(* runs its code.                                                          *)
(***************************************************************************)
NewFrame ==
  [ pc |-> "request", in_function_call |-> FALSE, first |-> TRUE,
    finished |-> FALSE, turn |-> 0, asked |-> FALSE, runs |-> 0, interp |-> 0 ]

Top(stk) == stk[Len(stk)]

SetTop(stk, f) == [stk EXCEPT ![Len(stk)] = f]

NoInterpreters == [l \in {} |-> 0]

NoTally == [dispatched |-> 0, returned |-> 0, declined |-> 0, reported |-> 0]

NoText == [content |-> <<>>, arguments |-> <<>>]

(***************************************************************************)
(* Visual Blocks (MessageBlock, CodeBlock): ends counts the end() calls a  *)
(* block received; it is open until the first.  A block is kept while      *)
(* self.active_block references it; an open block whose reference is       *)
(* overwritten stays on the terminal and is counted in leaked.             *)
(***************************************************************************)
NoBlock == [type |-> "none", ends |-> 0]

NewBlock(type) == [type |-> type, ends |-> 0]

EndBlock(b) == [b EXCEPT !.ends = @ + 1]

IsOpen(b) == b.type # "none" /\ b.ends = 0

Init ==
  /\ messages = <<>>
  /\ active_block = NoBlock
  /\ leaked = 0
  /\ code_interpreters = NoInterpreters
  /\ auto_run \in BOOLEAN
  /\ local \in BOOLEAN
  /\ debug_mode = FALSE
  /\ chat = "outside"
  /\ stack = <<>>
  /\ error = ""
  /\ requests = 0
  /\ prompts = 0
  /\ run_calls = 0
  /\ creations = [l \in Languages |-> 0]
  /\ session = 0
  /\ user_turns = 0
  /\ fragments = 0
  /\ tally = NoTally
  /\ event = "init"
  /\ target = NoText
  /\ pending = NoText

(***************************************************************************)
(* The code of one step works on a context: the session fields it may      *)
(* change, and how the step leaves respond(): "go" (at a wait), "return",  *)
(* "crash" (an exception other than KeyboardInterrupt), "interrupt".       *)
(***************************************************************************)
Here(ev) ==
  [ msgs |-> messages, ab |-> active_block, lk |-> leaked,
    ci |-> code_interpreters, cr |-> creations, stk |-> stack,
    pr |-> prompts, rc |-> run_calls, tl |-> tally, ctl |-> "go", err |-> "",
    ev |-> ev ]

Raise(c, err) == [c EXCEPT !.ctl = "crash", !.err = err, !.ev = "crash"]

\* self.active_block = b
AssignBlock(c, b) ==
  [c EXCEPT !.ab = b, !.lk = IF IsOpen(c.ab) THEN c.lk + 1 ELSE c.lk]

\* end_active_block(), lines 250-253
end_active_block(c) ==
  IF c.ab # NoBlock
  THEN AssignBlock([c EXCEPT !.ab = EndBlock(c.ab)], NoBlock)
  ELSE c

\* self.active_block.end()
EndActiveDirect(c) == [c EXCEPT !.ab = EndBlock(c.ab)]

\* self.active_block = CodeBlock() / MessageBlock()
OpenBlock(c, type) == AssignBlock(c, NewBlock(type))

\* A return of the innermost activation: the caller at line 395 returns too
\* (line 396); the caller at line 421 goes back to its for loop.
RECURSIVE Unwind(_)
Unwind(stk) ==
  LET rest == SubSeq(stk, 1, Len(stk) - 1) IN
  IF rest = <<>> THEN rest
  ELSE IF Top(rest).pc = "retry_call" THEN Unwind(rest)
  ELSE SetTop(rest, [Top(rest) EXCEPT !.pc = "stream"])

\* chat() once respond() is left for good: the finally clause of the
\* interactive loop ends the active block; chat(message) has no such clause.
LeaveRespond(c, to) ==
  LET d == IF chat = "interactive" THEN end_active_block(c) ELSE c IN
  /\ stack' = <<>>
  /\ active_block' = d.ab
  /\ leaked' = d.lk
  /\ chat' = to

Commit(c) ==
  /\ messages' = c.msgs
  /\ code_interpreters' = c.ci
  /\ creations' = c.cr
  /\ prompts' = c.pr
  /\ run_calls' = c.rc
  /\ tally' = c.tl
  /\ event' = c.ev
  /\ error' = IF c.ctl = "crash" THEN c.err ELSE error
  /\ CASE c.ctl = "go" ->
            /\ stack' = c.stk
            /\ active_block' = c.ab
            /\ leaked' = c.lk
            /\ chat' = chat
       [] c.ctl = "return" ->
            IF Unwind(c.stk) = <<>>
            THEN LeaveRespond(c, IF chat = "interactive" THEN "input" ELSE "outside")
            ELSE /\ stack' = Unwind(c.stk)
                 /\ active_block' = c.ab
                 /\ leaked' = c.lk
                 /\ chat' = chat
       [] c.ctl = "crash" -> LeaveRespond(c, "crashed")
       [] c.ctl = "interrupt" ->
            LeaveRespond(c, IF chat = "interactive" THEN "input" ELSE "outside")

InRespond == chat \in {"interactive", "message"} /\ stack # <<>>

(***************************************************************************)
(* respond(), lines 287-328: one fragment is merged into the last Turn,    *)
(* the phase is decided and the active block is updated.                   *)
(***************************************************************************)
\* A mutant of StoreMerged: the merged Turn is stored in the first place.
StoreMergedFirst(msgs, m) == [msgs EXCEPT ![1] = m]

\* Line 289: self.messages[-1] = merge_deltas(self.messages[-1], delta)
StoreMerged(msgs, m) == [msgs EXCEPT ![Len(msgs)] = m]

\* Lines 319-320: function_call["parsed_arguments"] = new_parsed_arguments
WithParsed(m, parsed) ==
  [m EXCEPT !.function_call =
     [k \in DOMAIN m.function_call \cup {"parsed_arguments"} |->
        IF k = "parsed_arguments" THEN parsed ELSE m.function_call[k]]]

\* Lines 314-320
ParseArguments(c) ==
  LET m == Last(c.msgs) IN
  IF /\ Has(m.function_call, "arguments")
     /\ Truthy(parse_partial_json(m.function_call.arguments))
  THEN [c EXCEPT !.msgs = StoreMerged(c.msgs,
                   WithParsed(m, parse_partial_json(m.function_call.arguments)))]
  ELSE c

\* A mutant of EnterInvocation: the block of the text phase is not ended.
EnterInvocationUnclosed(c) == OpenBlock(c, "code")

\* Lines 293-305: the first fragment of the invocation phase
EnterInvocation(c) ==
  LET e == end_active_block(c) IN
  IF Len(e.msgs) < 2 THEN Raise(e, "IndexError")
  ELSE IF ~Has(e.msgs[Len(e.msgs) - 1], "role") THEN Raise(e, "KeyError: 'role'")
  ELSE OpenBlock(e, "code")

SetInFunctionCall(c, v) ==
  [c EXCEPT !.stk = SetTop(c.stk, [Top(c.stk) EXCEPT !.in_function_call = v])]

\* Lines 291-328
Phase(c) ==
  LET f == Top(c.stk)
      p == IF Has(Last(c.msgs), "function_call")
           THEN LET c1 == IF f.in_function_call = FALSE THEN EnterInvocation(c) ELSE c
                IN IF c1.ctl = "crash" THEN c1
                   ELSE ParseArguments(SetInFunctionCall(c1, TRUE))
           ELSE LET c1 == SetInFunctionCall(c, FALSE)
                IN IF c1.ab = NoBlock THEN OpenBlock(c1, "message") ELSE c1
  IN IF p.ctl # "crash" /\ p.ab = NoBlock
     THEN Raise(p, "AttributeError: update_from_message")
     ELSE p

(***************************************************************************)
(* respond(), lines 375-407: the corrective retry, or the backend lookup   *)
(* and the call of run().                                                  *)
(***************************************************************************)
\* A mutant of NeedsRetry: the test of self.local is inverted.
NeedsRetryWhenLocal(m) ==
  local /\ Has(m, "function_call") /\ ~Has(m.function_call, "parsed_arguments")

\* Line 376
NeedsRetry(m) == ~local /\ ~Has(m.function_call, "parsed_arguments")

\* A mutant of RetryResult: the corrective Turn is not appended.
RetryResultSkipped(msgs) == msgs

\* Lines 389-393
RetryResult(msgs) == Append(msgs, FunctionTurn(CorrectiveContent))

\* A mutant of NeedsCreate: a backend is created on every dispatch.
NeedsCreateAlways(ci, language) == TRUE

\* Line 401
NeedsCreate(ci, language) == language \notin DOMAIN ci

\* Line 402: a CodeInterpreter that did not exist before
FreshInstance(c) == c.cr["python"] + c.cr["shell"] + 1

\* A mutant of CallRespond: respond() is not called again.
CallRespondSkipped(c, pc) == c

\* Lines 395 and 421: self.respond()
CallRespond(c, pc) ==
  [c EXCEPT !.stk = Append(SetTop(c.stk, [Top(c.stk) EXCEPT !.pc = pc]), NewFrame)]

\* Lines 398-407
LookupAndRun(c) ==
  LET m == Last(c.msgs) IN
  IF ~Has(m, "function_call") THEN Raise(c, "KeyError: 'function_call'")
  ELSE IF ~Has(m.function_call, "parsed_arguments")
  THEN Raise(c, "KeyError: 'parsed_arguments'")
  ELSE IF ~Has(m.function_call.parsed_arguments, "language")
  THEN Raise(c, "KeyError: 'language'")
  ELSE
    LET language == m.function_call.parsed_arguments.language
        c1 == IF NeedsCreate(c.ci, language)
              THEN [c EXCEPT
                      !.ci = [l \in DOMAIN c.ci \cup {language} |->
                                IF l = language THEN FreshInstance(c) ELSE c.ci[l]],
                      !.cr = [c.cr EXCEPT ![language] = @ + 1]]
              ELSE c
    IN [c1 EXCEPT
          !.stk = SetTop(c1.stk, [Top(c1.stk) EXCEPT
                    !.pc = "run", !.runs = @ + 1, !.interp = c1.ci[language]]),
          !.rc = c1.rc + 1,
          !.tl = [c1.tl EXCEPT !.dispatched = @ + 1],
          !.ev = "run"]

\* Lines 375-407
DispatchTail(c) ==
  IF ~local /\ ~Has(Last(c.msgs), "function_call")
  THEN Raise(c, "KeyError: 'function_call'")
  ELSE IF NeedsRetry(Last(c.msgs))
  THEN [CallRespond([c EXCEPT !.msgs = RetryResult(c.msgs)], "retry_call")
          EXCEPT !.tl = [c.tl EXCEPT !.reported = @ + 1], !.ev = "retry"]
  ELSE LookupAndRun(c)

(***************************************************************************)
(* respond(), lines 330-353: the fragment carried a finish reason.         *)
(***************************************************************************)
\* A mutant of IsInvocationFinish: only "stop" is taken as a plain completion.
IsNotStop(reason) == reason # "stop"

\* Line 335 (and its negation, line 331)
IsInvocationFinish(reason) == reason = "function_call"

\* Lines 344-353. MessageBlock is not part of this file: attr says whether
\* a message block has the language and code attributes lines 349-350 read.
AskConfirmation(c, attr) ==
  LET e == EndActiveDirect(c) IN
  IF e.ab.type = "message" /\ ~attr
  THEN Raise(e, "AttributeError: language")
  ELSE [e EXCEPT
          !.stk = SetTop(e.stk, [Top(e.stk) EXCEPT !.pc = "confirm", !.asked = TRUE]),
          !.pr = e.pr + 1,
          !.ev = "prompt"]

Finish(c, reason, attr) ==
  LET d == [c EXCEPT !.stk = SetTop(c.stk, [Top(c.stk) EXCEPT !.finished = TRUE])]
  IN IF ~IsInvocationFinish(reason)
     THEN [EndActiveDirect(d) EXCEPT !.ctl = "return", !.ev = "finish_text"]
     ELSE IF auto_run = FALSE THEN AskConfirmation(d, attr)
     ELSE DispatchTail(d)

\* A mutant of ProcessChunk: every chunk is taken to end the stream with
\* function_call.
ProcessChunkAsLast(c, delta, reason, attr) ==
  LET merged == [c EXCEPT
                   !.msgs = StoreMerged(c.msgs, merge_deltas(Last(c.msgs), delta)),
                   !.stk = SetTop(c.stk, [Top(c.stk) EXCEPT !.first = FALSE])]
      p == Phase(merged)
  IN IF p.ctl = "crash" THEN p ELSE Finish(p, "function_call", attr)

\* Lines 287-421 for one chunk
ProcessChunk(c, delta, reason, attr) ==
  LET merged == [c EXCEPT
                   !.msgs = StoreMerged(c.msgs, merge_deltas(Last(c.msgs), delta)),
                   !.stk = SetTop(c.stk, [Top(c.stk) EXCEPT !.first = FALSE])]
      p == Phase(merged)
  IN IF p.ctl = "crash" \/ reason = NoFinish THEN p ELSE Finish(p, reason, attr)

(***************************************************************************)
(* The actions.                                                            *)
(***************************************************************************)
Untouched == UNCHANGED << auto_run, local, session, target, pending >>

\* chat(), no message: lines 143-181, up to the first input prompt.
StartChat ==
  /\ chat = "outside"
  /\ chat' = "input"
  /\ UNCHANGED << event, messages, active_block, leaked, code_interpreters,
                  debug_mode, stack, error, requests, prompts, run_calls, creations,
                  user_turns, fragments, tally >>
  /\ Untouched

\* Lines 181-204: a line is read at the prompt; "%debug" only switches the
\* debug mode on, any other line starts respond().
UserInput(text) ==
  /\ chat = "input"
  /\ user_turns < MaxUserTurns
  /\ text = "%debug" \/ requests < MaxRequests
  /\ messages' = Append(messages, UserTurn(text))
  /\ user_turns' = user_turns + 1
  /\ IF text = "%debug"
     THEN /\ debug_mode' = TRUE
          /\ event' = "debug"
          /\ UNCHANGED << chat, stack >>
     ELSE /\ chat' = "interactive"
          /\ stack' = << NewFrame >>
          /\ event' = "user"
          /\ UNCHANGED debug_mode
  /\ UNCHANGED << active_block, leaked, code_interpreters, error, requests,
                  prompts, run_calls, creations, fragments, tally >>
  /\ Untouched

\* Lines 182-186: EOF or CTRL-C at the input prompt leaves chat().
InputEnds ==
  /\ chat = "input"
  /\ chat' = "outside"
  /\ UNCHANGED << event, messages, active_block, leaked, code_interpreters,
                  debug_mode, stack, error, requests, prompts, run_calls, creations,
                  user_turns, fragments, tally >>
  /\ Untouched

\* chat(message), lines 172-175.
ChatMessage(text) ==
  /\ chat = "outside"
  /\ user_turns < MaxUserTurns
  /\ requests < MaxRequests
  /\ messages' = Append(messages, UserTurn(text))
  /\ user_turns' = user_turns + 1
  /\ chat' = "message"
  /\ stack' = << NewFrame >>
  /\ event' = "message"
  /\ UNCHANGED << active_block, leaked, code_interpreters, debug_mode, error,
                  requests, prompts, run_calls, creations, fragments, tally >>
  /\ Untouched

\* reset(), lines 132-134.
Reset ==
  /\ chat = "outside"
  /\ session < MaxResets
  /\ messages' = <<>>
  /\ code_interpreters' = NoInterpreters
  /\ creations' = [l \in Languages |-> 0]
  /\ tally' = NoTally
  /\ session' = session + 1
  /\ event' = "reset"
  /\ UNCHANGED << active_block, leaked, auto_run, local, debug_mode, chat, stack,
                  error, requests, prompts, run_calls, user_turns, fragments,
                  target, pending >>

\* Lines 104-112: every one of the last two Turns is asked for its role.
RolesReadable(msgs) ==
  \A i \in 1..Len(msgs) : i > Len(msgs) - 2 => Has(msgs[i], "role")

\* respond(), lines 256-284: the request to the provider, the empty
\* placeholder Turn, and the reference to the active block dropped.
RequestStep(c) ==
  IF ~RolesReadable(c.msgs) THEN Raise(c, "KeyError: 'role'")
  ELSE [AssignBlock(c, NoBlock) EXCEPT
          !.msgs = Append(c.msgs, EmptyTurn),
          !.stk = SetTop(c.stk, [Top(c.stk) EXCEPT
                    !.pc = "stream", !.in_function_call = FALSE,
                    !.turn = Len(c.msgs) + 1])]

Request ==
  /\ InRespond
  /\ Top(stack).pc = "request"
  /\ requests < MaxRequests
  /\ Commit(RequestStep(Here("request")))
  /\ requests' = IF RolesReadable(messages) THEN requests + 1 ELSE requests
  /\ UNCHANGED << debug_mode, user_turns, fragments >>
  /\ Untouched

\* The provider delivers the first fragment of a stream.
FirstFragment(delta) ==
  /\ InRespond
  /\ Top(stack).pc = "stream"
  /\ Top(stack).first
  /\ Commit(ProcessChunk(Here("fragment"), delta, NoFinish, TRUE))
  /\ UNCHANGED << debug_mode, requests, user_turns, fragments >>
  /\ Untouched

\* The provider delivers a later fragment, with no finish reason.
Fragment(delta) ==
  /\ InRespond
  /\ Top(stack).pc = "stream"
  /\ ~Top(stack).first
  /\ ~Top(stack).finished
  /\ fragments < MaxFragments
  /\ fragments' = fragments + 1
  /\ Commit(ProcessChunk(Here("fragment"), delta, NoFinish, TRUE))
  /\ UNCHANGED << debug_mode, requests, user_turns >>
  /\ Untouched

\* The provider delivers the last fragment: an empty delta and the finish
\* reason.  An invocation is only finished while a request is left for the
\* continuation.
FinishFragment(reason, attr) ==
  /\ InRespond
  /\ Top(stack).pc = "stream"
  /\ ~Top(stack).first
  /\ ~Top(stack).finished
  /\ reason = "function_call" => requests < MaxRequests
  /\ Commit(ProcessChunk(Here("fragment"), EmptyTurn, reason, attr))
  /\ UNCHANGED << debug_mode, requests, user_turns, fragments >>
  /\ Untouched

\* The for loop of an activation that is back from line 421 finds its
\* stream exhausted and falls off the end of respond().
StreamEnd ==
  /\ InRespond
  /\ Top(stack).pc = "stream"
  /\ Top(stack).finished
  /\ Commit([Here("stream_end") EXCEPT !.ctl = "return"])
  /\ UNCHANGED << debug_mode, requests, user_turns, fragments >>
  /\ Untouched

\* Lines 365-372
DeclineResult(msgs) == Append(msgs, FunctionTurn(DeclinedContent))

\* Lines 353-373 and on: the answer to the confirmation prompt.
AnswerStep(c, response) ==
  IF Approves(response)
  THEN DispatchTail(OpenBlock(c, "code"))
  ELSE [EndActiveDirect(c) EXCEPT
          !.msgs = DeclineResult(c.msgs),
          !.tl = [c.tl EXCEPT !.declined = @ + 1],
          !.ctl = "return", !.ev = "declined"]

Answer(response) ==
  /\ InRespond
  /\ Top(stack).pc = "confirm"
  /\ Commit(AnswerStep(Here("answer"), response))
  /\ UNCHANGED << debug_mode, requests, user_turns, fragments >>
  /\ Untouched

\* A mutant of RunResult: the function-result Turn is not appended.
RunResultDropped(msgs, output) == msgs

\* A mutant of RunResult: the output is appended as it is, empty or not.
RunResultRaw(msgs, output) == Append(msgs, FunctionTurn(output))

\* Lines 414-418
RunResult(msgs, output) ==
  Append(msgs, FunctionTurn(IF output # "" THEN output ELSE NoOutput))

\* Lines 407-421: run() returns with the block's output.
RunStep(c, output) ==
  [CallRespond([EndActiveDirect(c) EXCEPT !.msgs = RunResult(c.msgs, output)],
               "run_call")
     EXCEPT !.tl = [c.tl EXCEPT !.returned = @ + 1], !.ev = "ran"]

RunReturns(output) ==
  /\ InRespond
  /\ Top(stack).pc = "run"
  /\ Commit(RunStep(Here("ran"), output))
  /\ UNCHANGED << debug_mode, requests, user_turns, fragments >>
  /\ Untouched

\* CTRL-C at a blocking wait of respond(): lines 203-209 in the interactive
\* loop; chat(message) lets it through to its caller (line 175).
Interrupt ==
  /\ InRespond
  /\ Commit([Here("interrupt") EXCEPT !.ctl = "interrupt"])
  /\ UNCHANGED << debug_mode, requests, user_turns, fragments >>
  /\ Untouched

Next ==
  \/ StartChat
  \/ \E text \in InputLines : UserInput(text)
  \/ InputEnds
  \/ \E text \in Messages : ChatMessage(text)
  \/ Reset
  \/ Request
  \/ \E delta \in FirstDeltas : FirstFragment(delta)
  \/ \E delta \in LaterDeltas : Fragment(delta)
  \/ \E reason \in FinishReasons, attr \in BOOLEAN : FinishFragment(reason, attr)
  \/ StreamEnd
  \/ \E response \in Answers : Answer(response)
  \/ \E output \in Outputs : RunReturns(output)
  \/ Interrupt

Spec == Init /\ [][Next]_vars

\* The for loop of respond() is the program's own step: once a stream is
\* exhausted the activation that reads it goes on to fall off its end.
SpecFair == Spec /\ WF_vars(StreamEnd)

(***************************************************************************)
(* A provider that keeps delivering after the chunk with the finish        *)
(* reason.  The activation that made the call of line 421 has no return    *)
(* after it: back from the continuation, its for loop takes the next chunk *)
(* of its own stream through lines 287-328.                                *)
(***************************************************************************)
LateFragment(delta) ==
  /\ InRespond
  /\ Top(stack).pc = "stream"
  /\ Top(stack).finished
  /\ fragments < MaxFragments
  /\ fragments' = fragments + 1
  /\ Commit(ProcessChunk(Here("fragment"), delta, NoFinish, TRUE))
  /\ UNCHANGED << debug_mode, requests, user_turns >>
  /\ Untouched

NextLate ==
  \/ Next
  \/ \E delta \in LaterDeltas : LateFragment(delta)

SpecLate == Init /\ [][NextLate]_vars

(***************************************************************************)
(* Line 289 alone: the text of one stream, cut into fragments at any       *)
(* places, is merged fragment by fragment into the placeholder Turn of     *)
(* line 282.  Text is a sequence of characters here, so that it can be     *)
(* cut; a fragment carries a piece of the content, a piece of the argument *)
(* text, both, or nothing.                                                 *)
(***************************************************************************)
TextChars == {"a", "b"}

Texts == UNION {[1..n -> TextChars] : n \in 0..MaxText}

Rest(s, n) == SubSeq(s, n + 1, Len(s))

\* The delta that carries the first i characters of content and the first j
\* characters of argument text of what is given; a field with no character
\* is left out.
Piece(text, i, j) ==
  [k \in (IF i > 0 THEN {"content"} ELSE {})
         \cup (IF j > 0 THEN {"function_call"} ELSE {}) |->
     IF k = "content" THEN SubSeq(text.content, 1, i)
     ELSE [arguments |-> SubSeq(text.arguments, 1, j)]]

InitMerge ==
  /\ messages = << EmptyTurn >>
  /\ active_block = NoBlock
  /\ leaked = 0
  /\ code_interpreters = NoInterpreters
  /\ auto_run = FALSE
  /\ local = FALSE
  /\ debug_mode = FALSE
  /\ chat = "message"
  /\ stack = <<>>
  /\ error = ""
  /\ requests = 0
  /\ prompts = 0
  /\ run_calls = 0
  /\ creations = [l \in Languages |-> 0]
  /\ session = 0
  /\ user_turns = 0
  /\ fragments = 0
  /\ tally = NoTally
  /\ event = "init"
  /\ target \in [content : Texts, arguments : Texts]
  /\ pending = target

\* Line 289 for a fragment that carries the next i and j characters.
MergePiece(i, j) ==
  /\ i <= Len(pending.content)
  /\ j <= Len(pending.arguments)
  /\ messages' = StoreMerged(messages,
                    merge_deltas(Last(messages), Piece(pending, i, j)))
  /\ pending' = [content |-> Rest(pending.content, i),
                 arguments |-> Rest(pending.arguments, j)]
  /\ event' = "fragment"
  /\ UNCHANGED << active_block, leaked, code_interpreters, auto_run, local,
                  debug_mode, chat, stack, error, requests, prompts, run_calls,
                  creations, session, user_turns, fragments, tally, target >>

NextMerge == \E i, j \in 0..MaxText : MergePiece(i, j)

SpecMerge == InitMerge /\ [][NextMerge]_vars

(***************************************************************************)
(* Vocabulary of the properties.                                           *)
(***************************************************************************)
IsFunctionTurn(m) == Has(m, "role") /\ m.role = "function"

IsAssistantTurn(m) == Has(m, "role") /\ m.role = "assistant"

HasInvocation(m) == Has(m, "function_call")

HasParsed(m) == HasInvocation(m) /\ Has(m.function_call, "parsed_arguments")

HasLanguage(m) == HasParsed(m) /\ Has(m.function_call.parsed_arguments, "language")

Frames == {stack[i] : i \in 1..Len(stack)}

\* The activation has made its backend run call and is waiting for it.
Running(f) == f.pc = "run"

\* The activation has issued its continuation after a backend run (line 421),
\* or is back from it.
Continued(f) == f.pc = "run_call" \/ (f.pc = "stream" /\ f.finished)

(***************************************************************************)
(* C1.  Dispatch exactly-once: an activation whose stream finished with    *)
(* function_call, whose arguments parsed to an object with a language and  *)
(* that was approved (it is past the prompt, or auto_run is on) has made   *)
(* exactly one backend run call; no function-result Turn follows its Turn  *)
(* while the run is pending, and when its continuation is issued exactly   *)
(* one function-result Turn follows its Turn.  It never takes the          *)
(* corrective retry.                                                       *)
(***************************************************************************)
C1_DispatchExactlyOnce ==
  \A f \in Frames :
    (f.finished /\ f.pc # "confirm" /\ HasLanguage(messages[f.turn])) =>
      /\ f.runs = 1
      /\ Running(f) \/ Continued(f)
      /\ Running(f) => Len(messages) = f.turn
      /\ Continued(f) =>
           /\ Len(messages) > f.turn
           /\ IsFunctionTurn(messages[f.turn + 1])
           /\ Len(messages) > f.turn + 1 => ~IsFunctionTurn(messages[f.turn + 2])

\* An approved invocation was run after a "y" at the prompt, its result was
\* appended and the continuation request has been issued.
C1_Witness ==
  \E i \in 1..(Len(stack) - 1) :
    /\ stack[i].pc = "run_call"
    /\ stack[i].asked
    /\ stack[i].runs = 1
    /\ HasLanguage(messages[stack[i].turn])
    /\ stack[i + 1].pc = "stream"

(***************************************************************************)
(* The call chain is winding down: the innermost activation is back in its *)
(* for loop with its stream finished, and every caller waits at line 395   *)
(* or at line 421.                                                         *)
(* From such a stack no provider request, prompt or run can follow.        *)
(***************************************************************************)
Winding(stk) ==
  /\ stk # <<>>
  /\ Top(stk).pc = "stream"
  /\ Top(stk).finished
  /\ \A i \in 1..(Len(stk) - 1) : stk[i].pc \in {"run_call", "retry_call"}

CycleOver(stk) == stk = <<>> \/ Winding(stk)

WindingStaysQuiet ==
  Winding(stack) =>
    /\ requests' = requests
    /\ run_calls' = run_calls
    /\ prompts' = prompts
    /\ CycleOver(stack')

DecliningAnswers == {<<"n">>, <<"y", "e", "s">>, <<>>}

ApprovingAnswers == {<<"y">>, <<" ", "Y", " ">>}

(***************************************************************************)
(* C2.  Decline path: with auto_run off, an answer to the prompt that is   *)
(* not "y" after strip and lower-casing makes no backend run call, appends *)
(* exactly one function-result Turn with the content "User decided not to  *)
(* run this code.", and respond returns: no provider request follows in    *)
(* the cycle (the callers only wind down).                                 *)
(***************************************************************************)
C2_DeclinePath ==
  [][ /\ \A r \in DecliningAnswers :
           (Answer(r) /\ auto_run = FALSE) =>
             /\ run_calls' = run_calls
             /\ requests' = requests
             /\ messages' = Append(messages,
                  [role |-> "function", name |-> "run_code",
                   content |-> "User decided not to run this code."])
             /\ Len(stack') < Len(stack)
             /\ CycleOver(stack')
      /\ WindingStaysQuiet ]_vars

\* The user has declined at the prompt of a continuation: the decline Turn
\* is the last one and the caller is winding down.
C2_Witness ==
  /\ event = "declined"
  /\ Last(messages).content = "User decided not to run this code."
  /\ run_calls = 1
  /\ Winding(stack)

(***************************************************************************)
(* C4.  Finish-reason dispatch: a fragment with a finish reason other than *)
(* function_call closes the active block and makes respond return, with no *)
(* prompt, no backend call, no Turn appended and no provider request to    *)
(* follow; a fragment with finish reason function_call always enters the   *)
(* dispatch steps: the prompt, the corrective retry or the backend run, or *)
(* an exception raised by one of these steps.                              *)
(***************************************************************************)
DispatchErrors ==
  { "AttributeError: language", "KeyError: 'function_call'",
    "KeyError: 'parsed_arguments'", "KeyError: 'language'" }

C4_FinishReasonDispatch ==
  [][ \A reason \in {"stop", "length", "function_call"}, attr \in BOOLEAN :
        FinishFragment(reason, attr) =>
          IF reason # "function_call"
          THEN /\ prompts' = prompts
               /\ run_calls' = run_calls
               /\ requests' = requests
               /\ messages' = messages
               /\ ~IsOpen(active_block')
               /\ leaked' = leaked
               /\ Len(stack') < Len(stack)
               /\ CycleOver(stack')
          ELSE /\ event' \in {"prompt", "retry", "run", "crash"}
               /\ event' = "prompt" =>
                    prompts' = prompts + 1 /\ Top(stack').pc = "confirm"
               /\ event' = "retry" =>
                    Top(stack').pc = "request" /\ Len(stack') = Len(stack) + 1
               /\ event' = "run" =>
                    run_calls' = run_calls + 1 /\ Top(stack').pc = "run"
               /\ event' = "crash" => error' \in DispatchErrors ]_vars

\* A stream that carried an invocation has finished with another reason:
\* respond has returned and the Turn is left without a result.
C4_Witness ==
  /\ event = "finish_text"
  /\ stack = <<>>
  /\ HasInvocation(Last(messages))
  /\ prompts = 0
  /\ run_calls = 0

(***************************************************************************)
(* C5.  Corrective retry.                                                  *)
(***************************************************************************)
Unparsed(m) == HasInvocation(m) /\ ~HasParsed(m)

RetryEffect ==
  /\ run_calls' = run_calls
  /\ messages' = Append(messages,
       [role |-> "function", name |-> "run_code",
        content |-> "Your function call could not be parsed. Please use ONLY the run_code function, which takes two parameters: code and language. Your response should be formatted as a JSON."])
  /\ Len(stack') = Len(stack) + 1
  /\ stack'[Len(stack)].pc = "retry_call"
  /\ Top(stack').pc = "request"

RetryWithoutPrompt ==
  \A attr \in BOOLEAN :
    ( /\ FinishFragment("function_call", attr)
      /\ auto_run
      /\ ~local
      /\ Unparsed(Last(messages)) ) => RetryEffect

RetryAfter(answers) ==
  \A r \in answers :
    (Answer(r) /\ ~local /\ Unparsed(Last(messages))) => RetryEffect

\* C5 as claimed: a stream that finished with function_call in a session
\* that is not local, with parsed_arguments absent, always ends its cycle by
\* the corrective retry (no backend call, one corrective function-result
\* Turn, a new provider request), whatever auto_run is and whatever is
\* answered at the prompt.
C5_RetryAlways == [][ RetryWithoutPrompt /\ RetryAfter(Answers) ]_vars

\* C5 as amended: the corrective retry is taken when auto_run is on, and
\* with auto_run off when the prompt is answered "y".
C5_RetryWhenApproved == [][ RetryWithoutPrompt /\ RetryAfter(ApprovingAnswers) ]_vars

\* The corrective retry has been taken after a "y" at the prompt.
C5_Witness ==
  /\ event = "retry"
  /\ auto_run = FALSE
  /\ ~local
  /\ IsFunctionTurn(Last(messages))
  /\ Unparsed(messages[Len(messages) - 1])
  /\ Top(stack).pc = "request"

(***************************************************************************)
(* C3.  Function-result pairing.                                           *)
(***************************************************************************)
FunctionTurns == {i \in 1..Len(messages) : IsFunctionTurn(messages[i])}

\* C3 as claimed: each assistant Turn that carries an invocation is followed
\* by exactly one function-result Turn before the next Turn begins, and once
\* a cycle is over the number of function-result Turns is the number of
\* invocations dispatched, declined or reported unparsable.
C3_EveryInvocationAnswered ==
  /\ \A i \in 1..(Len(messages) - 1) :
       (IsAssistantTurn(messages[i]) /\ HasInvocation(messages[i])) =>
         /\ IsFunctionTurn(messages[i + 1])
         /\ i + 2 <= Len(messages) => ~IsFunctionTurn(messages[i + 2])
  /\ stack = <<>> =>
       Cardinality(FunctionTurns) =
         tally.dispatched + tally.declined + tally.reported

\* C3 as amended: every function-result Turn directly follows an assistant
\* Turn (so no assistant Turn is followed by two), and the number of
\* function-result Turns is the number of invocations declined, reported
\* unparsable or whose backend run returned.
C3_SettledInvocationsAnswered ==
  /\ \A i \in FunctionTurns : i > 1 /\ IsAssistantTurn(messages[i - 1])
  /\ Cardinality(FunctionTurns) = tally.returned + tally.declined + tally.reported

\* One invocation was run and the next one declined: two function-result
\* Turns, each right after its assistant Turn.
C3_Witness ==
  /\ tally.returned = 1
  /\ tally.declined = 1
  /\ Cardinality(FunctionTurns) = 2
  /\ \A i \in FunctionTurns : HasInvocation(messages[i - 1])

(***************************************************************************)
(* C6.  At most one Visual Block is open at any time, respond never drops  *)
(* its reference to an open block, and while the fragments of a stream are *)
(* rendered the active block is open.                                      *)
(***************************************************************************)
OpenCount == leaked + (IF IsOpen(active_block) THEN 1 ELSE 0)

Rendering ==
  /\ stack # <<>>
  /\ Top(stack).pc = "stream"
  /\ ~Top(stack).first
  /\ ~Top(stack).finished

C6_OneOpenBlock ==
  /\ leaked = 0
  /\ OpenCount <= 1
  /\ Rendering => IsOpen(active_block)

(***************************************************************************)
(* C7.  Interrupt unwinding: after a user interrupt at a blocking wait of  *)
(* respond, in the interactive chat and in chat called with a message, the *)
(* active block is closed and no activation of respond is left to issue a  *)
(* provider request.                                                       *)
(***************************************************************************)
C7_InterruptClosesBlock ==
  event = "interrupt" => (stack = <<>> /\ ~IsOpen(active_block))

(***************************************************************************)
(* C8.  Interrupt leaves a resumable transcript: whenever respond is not   *)
(* running, and whenever a request is about to be built, every Turn of the *)
(* transcript has a role, and no request fails on a Turn without one.      *)
(***************************************************************************)
C8_ResumableTranscript ==
  /\ (stack = <<>> \/ Top(stack).pc = "request") =>
       \A i \in 1..Len(messages) : Has(messages[i], "role")
  /\ error # "KeyError: 'role'"

(***************************************************************************)
(* C9.  Backend registry: between two resets a backend is created at most  *)
(* once per language, the registry holds exactly the backends created, no  *)
(* two languages share an instance, a pending run uses the instance        *)
(* registered for the language of its Turn, and no step other than reset   *)
(* removes or replaces an entry.                                           *)
(***************************************************************************)
TurnLanguage(f) == messages[f.turn].function_call.parsed_arguments.language

RegistryInv ==
  /\ \A l \in Languages : creations[l] <= 1
  /\ DOMAIN code_interpreters = {l \in Languages : creations[l] = 1}
  /\ \A l1, l2 \in DOMAIN code_interpreters :
       code_interpreters[l1] = code_interpreters[l2] => l1 = l2
  /\ \A f \in Frames :
       Running(f) =>
         /\ TurnLanguage(f) \in DOMAIN code_interpreters
         /\ f.interp = code_interpreters[TurnLanguage(f)]

RegistryStable ==
  session' = session =>
    \A l \in DOMAIN code_interpreters :
      /\ l \in DOMAIN code_interpreters'
      /\ code_interpreters'[l] = code_interpreters[l]

C9_Registry == [] RegistryInv /\ [][RegistryStable]_vars

\* A second dispatch for a language reuses the one instance created for it.
C9_Witness ==
  /\ run_calls = 2
  /\ creations = [python |-> 1, shell |-> 0]
  /\ \E f \in Frames : Running(f) /\ f.interp = code_interpreters["python"]

(***************************************************************************)
(* C10.  Append-only transcript: a step of respond never shortens the      *)
(* transcript and leaves every Turn but the last as it was; the last Turn  *)
(* changes only while its own activation merges a fragment into it.        *)
(***************************************************************************)
C10_AppendOnly ==
  [][ InRespond =>
        /\ Len(messages') >= Len(messages)
        /\ \A i \in 1..(Len(messages) - 1) : messages'[i] = messages[i]
        /\ messages'[Len(messages)] # messages[Len(messages)] =>
             /\ Top(stack).pc = "stream"
             /\ Top(stack).turn = Len(messages)
             /\ Len(messages') = Len(messages) ]_vars

\* A fragment has been merged into the last Turn of a continuation, below
\* which the earlier Turns (with a function-result Turn) stand.
C10_Witness ==
  /\ event = "fragment"
  /\ Len(messages) >= 4
  /\ IsFunctionTurn(messages[Len(messages) - 1])
  /\ Has(Last(messages), "content")

(***************************************************************************)
(* C11.  Parse preservation: on every fragment of the invocation phase the *)
(* partial parser is run over the whole argument text accumulated so far;  *)
(* when the attempt succeeds parsed_arguments is its result, when it fails *)
(* parsed_arguments is what it was before the fragment: kept unchanged if  *)
(* present, still absent if absent.                                        *)
(***************************************************************************)
ParsePreservedBy(old, new) ==
  LET attempt == parse_partial_json(new.arguments) IN
  IF attempt # NotParsed
  THEN Has(new, "parsed_arguments") /\ new.parsed_arguments = attempt
  ELSE IF Has(old, "parsed_arguments")
  THEN Has(new, "parsed_arguments") /\ new.parsed_arguments = old.parsed_arguments
  ELSE ~Has(new, "parsed_arguments")

C11_ParsePreservation ==
  [][ \A delta \in LaterDeltas :
        (Fragment(delta) /\ HasInvocation(Last(messages))) =>
          /\ Len(messages') = Len(messages)
          /\ HasInvocation(Last(messages'))
          /\ ParsePreservedBy(Last(messages).function_call,
                              Last(messages').function_call) ]_vars

\* A re-attempt has failed on text that parsed before: the earlier parse stands.
C11_Witness ==
  /\ event = "fragment"
  /\ HasParsed(Last(messages))
  /\ Last(messages).function_call.arguments = <<"p", "x">>
  /\ Last(messages).function_call.parsed_arguments = [language |-> "python"]

(***************************************************************************)
(* C12.  Empty output sentinel: when a backend run returns, the Turn       *)
(* appended is a function-result Turn whose content is the output of the   *)
(* block if that is not empty, and "No output" if it is.                   *)
(***************************************************************************)
C12_EmptyOutputSentinel ==
  [][ \A output \in Outputs :
        RunReturns(output) =>
          messages' = Append(messages,
            [role |-> "function", name |-> "run_code",
             content |-> IF output = "" THEN "No output" ELSE output]) ]_vars

\* A run has just returned with no output.
C12_Witness ==
  /\ event = "ran"
  /\ IsFunctionTurn(Last(messages))
  /\ Last(messages).content = "No output"

(***************************************************************************)
(* C13.  Ordering before continuation: when an activation that respond     *)
(* called from itself (after a backend run, line 421, or after a           *)
(* corrective retry, line 395) is about to issue its provider request, the *)
(* block that was active for the finished stream is closed and the last    *)
(* Turn of the transcript is the function-result Turn.                     *)
(***************************************************************************)
AtContinuationRequest ==
  /\ InRespond
  /\ Len(stack) > 1
  /\ Top(stack).pc = "request"

C13_OrderedBeforeContinuation ==
  AtContinuationRequest =>
    /\ ~IsOpen(active_block)
    /\ IsFunctionTurn(Last(messages))

(***************************************************************************)
(* C14.  Merge associativity and monotone accumulation: however the text   *)
(* of a stream is cut into fragments, the cumulative Turn after the        *)
(* fragments delivered so far is the Turn that one merge of their          *)
(* concatenation into the empty Turn gives; a fragment only extends the    *)
(* content and the argument text at their end, and an empty fragment       *)
(* changes nothing.                                                        *)
(***************************************************************************)
IsPrefix(s, t) == Len(s) <= Len(t) /\ SubSeq(t, 1, Len(s)) = s

\* The characters delivered so far, field by field.
Delivered ==
  [content |-> SubSeq(target.content, 1,
                      Len(target.content) - Len(pending.content)),
   arguments |-> SubSeq(target.arguments, 1,
                        Len(target.arguments) - Len(pending.arguments))]

MergedAtOnce ==
  merge_deltas(EmptyTurn,
               Piece(Delivered, Len(Delivered.content), Len(Delivered.arguments)))

Extends(old, new) ==
  /\ Has(old, "content") =>
       Has(new, "content") /\ IsPrefix(old.content, new.content)
  /\ Has(old, "function_call") =>
       /\ Has(new, "function_call")
       /\ IsPrefix(old.function_call.arguments, new.function_call.arguments)

C14_MergeAssociative ==
  /\ [] (Last(messages) = MergedAtOnce)
  /\ [][ /\ Extends(Last(messages), Last(messages'))
         /\ MergePiece(0, 0) => messages' = messages ]_vars

\* The content has come in whole and the argument text in part: "b" is
\* merged, "a" is still to come.
C14_Witness ==
  /\ event = "fragment"
  /\ Last(messages) = [content |-> <<"a", "b">>,
                       function_call |-> [arguments |-> <<"b">>]]
  /\ pending = [content |-> <<>>, arguments |-> <<"a">>]

(***************************************************************************)
(* C15.  Phase transition: the fragment with which the cumulative Turn     *)
(* gains function_call closes the block of the text phase, if there is     *)
(* one, and opens one code block; every later fragment of the stream stays *)
(* in the invocation phase with that same block; a fragment that leaves    *)
(* the Turn without function_call has one open message block, the one the  *)
(* stream opened with its first fragment.                                  *)
(***************************************************************************)
PhaseStep(old, new) ==
  IF HasInvocation(old)
  THEN /\ HasInvocation(new)
       /\ Top(stack).in_function_call /\ Top(stack').in_function_call
       /\ active_block' = active_block
       /\ leaked' = leaked
  ELSE IF HasInvocation(new)
  THEN /\ Top(stack').in_function_call
       /\ active_block' = [type |-> "code", ends |-> 0]
       /\ leaked' = leaked
  ELSE /\ ~Top(stack').in_function_call
       /\ active_block' = [type |-> "message", ends |-> 0]
       /\ ~Top(stack).first => active_block' = active_block
       /\ leaked' = leaked

C15_PhaseTransition ==
  [][ \A delta \in FirstDeltas \cup LaterDeltas :
        (FirstFragment(delta) \/ Fragment(delta)) =>
          /\ event' = "fragment"
          /\ Len(messages') = Len(messages)
          /\ PhaseStep(Last(messages), Last(messages')) ]_vars

\* A stream that began as text has gained its invocation: the message block
\* is gone, closed, and the code block is open.
C15_Witness ==
  /\ event = "fragment"
  /\ InRespond
  /\ Top(stack).pc = "stream"
  /\ Top(stack).in_function_call
  /\ HasInvocation(Last(messages))
  /\ ~Has(Last(messages).function_call, "name")
  /\ active_block = [type |-> "code", ends |-> 0]
  /\ leaked = 0

(***************************************************************************)
(* C16.  Prompt after the stream: a confirmation prompt is issued only in  *)
(* the step that processes the fragment carrying the finish reason         *)
(* function_call, one prompt for it; an activation that waits at the       *)
(* prompt is the innermost one and its stream is finished; and while it    *)
(* waits no fragment is merged: the transcript changes only by the Turn    *)
(* the answer appends.                                                     *)
(***************************************************************************)
AtPrompt == InRespond /\ Top(stack).pc = "confirm"

PromptedFrames == {i \in 1..Len(stack) : stack[i].pc = "confirm"}

C16_PromptAfterStream ==
  /\ [] (\A i \in PromptedFrames :
           /\ i = Len(stack)
           /\ stack[i].finished
           /\ stack[i].asked
           /\ stack[i].turn = Len(messages))
  /\ [][ /\ prompts' # prompts =>
              /\ prompts' = prompts + 1
              /\ \E attr \in BOOLEAN : FinishFragment("function_call", attr)
              /\ Top(stack').pc = "confirm"
              /\ fragments' = fragments
         /\ AtPrompt =>
              /\ fragments' = fragments
              /\ \A i \in 1..Len(messages) : messages'[i] = messages[i] ]_vars

\* The prompt is up after a stream of several fragments.
C16_Witness ==
  /\ event = "prompt"
  /\ AtPrompt
  /\ fragments = 2
  /\ HasLanguage(Last(messages))

(***************************************************************************)
(* C17.  Chain termination: the step that takes a backend's result, and    *)
(* the step that takes the corrective retry, start a new activation that   *)
(* is about to issue a provider request; a stream finished with a reason   *)
(* other than function_call and a declined prompt make the innermost       *)
(* activation return, an interrupt leaves respond altogether; and once a   *)
(* stream has finished with a reason other than function_call, respond     *)
(* eventually returns to chat.                                             *)
(***************************************************************************)
Continues ==
  /\ Len(stack') = Len(stack) + 1
  /\ Top(stack') = NewFrame
  /\ \A i \in 1..(Len(stack) - 1) : stack'[i] = stack[i]

Returns ==
  /\ Len(stack') < Len(stack)
  /\ stack' # <<>> => (Top(stack').pc = "stream" /\ Top(stack').finished)

ChainSteps ==
  /\ event' \in {"ran", "retry"} => Continues
  /\ event' \in {"finish_text", "declined"} => Returns
  /\ event' = "interrupt" => stack' = <<>>

C17_ChainTermination ==
  /\ [][ InRespond => ChainSteps ]_vars
  /\ [] (event = "finish_text" => <> (stack = <<>>))

\* The text finish of a continuation has sent respond back into the
\* activation that ran the code, which has its for loop still to leave.
C17_Witness ==
  /\ event = "finish_text"
  /\ Len(stack) = 1
  /\ Top(stack).pc = "stream"
  /\ Top(stack).finished
  /\ run_calls = 1

(***************************************************************************)
(* C18.  Dispatch precondition: the backend lookup of lines 399-403 is     *)
(* never reached with parsed_arguments absent from the invocation of the   *)
(* last Turn, or present without a language: no session ends on the        *)
(* KeyError that the lookup raises then.                                   *)
(***************************************************************************)
C18_LookupHasLanguage ==
  error \notin {"KeyError: 'parsed_arguments'", "KeyError: 'language'"}

(***************************************************************************)
(* C19.  No processing after the finish signal: an activation whose stream *)
(* has delivered its finish reason, and that is back in its for loop after *)
(* the continuation returned, merges no further fragment of that stream:   *)
(* no step it takes changes the transcript or counts as a fragment.        *)
(***************************************************************************)
BackInFinishedStream ==
  /\ InRespond
  /\ Top(stack).pc = "stream"
  /\ Top(stack).finished

C19_NothingAfterFinish ==
  [][ BackInFinishedStream =>
        /\ messages' = messages
        /\ event' # "fragment" ]_vars

(***************************************************************************)
(* C20.  Closed is terminal: a block that has been ended is not ended a    *)
(* second time; the code block self.active_block references has received   *)
(* at most one end call.                                                   *)
(***************************************************************************)
C20_ClosedIsTerminal == active_block.type = "code" => active_block.ends <= 1

====
